---- MODULE Spec2Model ----
(***************************************************************************)
(* Model of rigify/rigs/basic/super_copy.py: the "super_copy" rig          *)
(* component.  One component instance runs the staged pipeline             *)
(*   initialize -> generate_bones -> parent_bones -> configure_bones       *)
(*              -> rig_bones -> generate_widgets                           *)
(* over an armature holding the org bone, its constraint stack and a few   *)
(* other bones.  The helpers of BaseRig, RelinkConstraintsMixin and the    *)
(* utils package are not part of super_copy.py; they are modelled from the *)
(* contracts the specification states for them.                            *)
(***************************************************************************)
EXTENDS Integers, Sequences, FiniteSets, TLC

VARIABLES
    pc,           \* the stage the host invokes next
    params,       \* the RigifyParameters of the instance (read-only)
    self,         \* instance fields set by initialize
    bones,        \* the BoneSet: role -> bone name
    exists,       \* bones present in the armature
    created,      \* bones created by this component (copy_bone calls)
    parent,       \* bone -> parent bone
    use_connect,  \* bone -> connected-parenting flag
    bbone,        \* bone -> bendy-bone segmentation copied
    props,        \* bone -> pose-bone editing properties (rotation mode, locks)
    constraints,  \* bone -> constraint stack
    orig_stack,   \* org's constraint stack before generation (history)
    new_parent,   \* parent_bones' local: what relink_bone_parent returned
    widgets,      \* widget attachments performed, in order
    rigs,         \* generator: instance id -> rig instance and its position
    arms,         \* generator: armature id -> armature
    log,          \* generator: the collaborator calls made, in order
    failure       \* generator: the call that raised, if any

vars == <<pc, params, self, bones, exists, created, parent, use_connect,
          bbone, props, constraints, orig_stack, new_parent, widgets,
          rigs, arms, log, failure>>

\* the variables of the statement-level generator model
gvars == <<rigs, arms, log, failure>>

\* the variables of the stage-level model of one instance
svars == <<pc, params, self, bones, exists, created, parent, use_connect,
           bbone, props, constraints, orig_stack, new_parent, widgets>>

----------------------------------------------------------------------------
(* Bounds *)

\* longest initial constraint stack of the org bone
MaxCons == 3

\* longest initial stack in the statement-level runs of one instance
GenMaxCons == 2

\* longest initial stack in the runs of two instances
PairMaxCons == 1

----------------------------------------------------------------------------
(* Values *)

\* Python's None, for bone references
None == "<None>"

\* the org bone of the instance and the other bones of the armature
OrgBone == "ORG-Bone"
CtrlName == "Bone"
DeformName == "DEF-Bone"
OtherBones == {"root", "ORG-Parent", "MCH-Target"}
\* the bones a second instance managing ORG-Parent creates
ParentCtrlName == "Parent"
ParentDeformName == "DEF-Parent"
AllBones == {OrgBone, CtrlName, DeformName, ParentCtrlName, ParentDeformName}
            \cup OtherBones

\* the constraint-name prefixes of rig_bones, as character sequences
PrefixCTRL == <<"C", "T", "R", "L", ":">>
PrefixDEF == <<"D", "E", "F", ":">>

\* name and type of the constraint make_constraint adds
CopyTransformsName == <<"C", "o", "p", "y", " ", "T", "r", "a", "n", "s", "f", "o", "r", "m", "s">>
CopyTransformsType == "COPY_TRANSFORMS"

\* the widget types the user can select; "" is the empty selection
WidgetTypes == {"", "circle", "sphere"}

\* str.startswith
StartsWith(name, prefix) ==
    /\ Len(name) >= Len(prefix)
    /\ SubSeq(name, 1, Len(prefix)) = prefix

\* the constraints a metarig author may have put on the org bone; names are
\* unique within a stack, as Blender keeps them
ConPool ==
    { [name |-> <<"C", "T", "R", "L", ":", "a">>, type |-> "COPY_ROTATION", target |-> "ORG-Parent"],
      [name |-> <<"C", "T", "R", "L", ":", "D", "E", "F", ":">>, type |-> "LIMIT_LOCATION", target |-> None],
      [name |-> <<"D", "E", "F", ":", "a">>, type |-> "STRETCH_TO", target |-> "ORG-Parent"],
      [name |-> <<"D", "E", "F", ":", "C", "T", "R", "L", ":">>, type |-> "COPY_SCALE", target |-> "root"],
      [name |-> <<"a">>, type |-> "COPY_TRANSFORMS", target |-> "ORG-Parent"],
      [name |-> <<"C", "T", "R", "L">>, type |-> "DAMPED_TRACK", target |-> "root"],
      [name |-> <<"d", "e", "f", ":">>, type |-> "COPY_LOCATION", target |-> None] }

RECURSIVE InjSeqs(_, _)
InjSeqs(S, n) ==
    IF n = 0 THEN {<<>>}
    ELSE LET shorter == InjSeqs(S, n - 1)
         IN  shorter \cup { Append(s, x) : s \in { t \in shorter : Len(t) = n - 1 },
                                             x \in S }

IsInjective(s) == \A i, j \in 1..Len(s) : s[i].name = s[j].name => i = j

\* every stack of at most n constraints with pairwise distinct names
StacksUpTo(n) == { s \in InjSeqs(ConPool, n) : IsInjective(s) }

\* every stack of at most MaxCons constraints with pairwise distinct names
Stacks == StacksUpTo(MaxCons)

RECURSIVE SelectSeq2(_, _)
\* the subsequence of s whose elements are in the set S, order kept
SelectSeq2(s, S) ==
    IF s = <<>> THEN <<>>
    ELSE IF Head(s) \in S THEN <<Head(s)>> \o SelectSeq2(Tail(s), S)
         ELSE SelectSeq2(Tail(s), S)

Range(s) == { s[i] : i \in 1..Len(s) }

----------------------------------------------------------------------------
(* Collaborators: utils.naming, BaseRig, RelinkConstraintsMixin, widgets *)

\* utils.naming.strip_org: drop the ORG- decoration
strip_org(name) ==
    CASE name = "ORG-Bone" -> "Bone"
      [] name = "ORG-Parent" -> "Parent"
      [] OTHER -> name

\* utils.naming.make_deformer_name: add the DEF- decoration
make_deformer_name(name) ==
    CASE name = "Bone" -> "DEF-Bone"
      [] name = "Parent" -> "DEF-Parent"
      [] OTHER -> name

\* armature-wide rename map used by the target rewrite
relink_target(t) == IF t = "ORG-Parent" THEN "MCH-Target" ELSE t

\* RelinkConstraintsMixin.relink_bone_constraints: targets rewritten, the
\* list, its order and its owner unchanged
relink_bone_constraints(cons, bone) ==
    [cons EXCEPT ![bone] =
        [i \in 1..Len(cons[bone]) |->
            [cons[bone][i] EXCEPT !.target = relink_target(cons[bone][i].target)]]]

\* RelinkConstraintsMixin.relink_move_constraints: every constraint of
\* from_bone whose name starts with prefix goes to the end of to_bone's
\* stack, in order
relink_move_constraints(cons, from_bone, to_bone, prefix) ==
    LET moved == { c \in Range(cons[from_bone]) : StartsWith(c.name, prefix) }
        kept == Range(cons[from_bone]) \ moved
    IN  [cons EXCEPT ![from_bone] = SelectSeq2(cons[from_bone], kept),
                     ![to_bone] = cons[to_bone] \o SelectSeq2(cons[from_bone], moved)]

\* list.insert semantics of the constraint stack
InsertAt(s, i, x) ==
    LET k == IF i > Len(s) THEN Len(s) ELSE i
    IN  SubSeq(s, 1, k) \o <<x>> \o SubSeq(s, k + 1, Len(s))

\* BaseRig.make_constraint: new constraint of the given type and target at
\* 0-based position insert_index of the bone's stack
make_constraint(cons, bone, type, target, insert_index) ==
    [cons EXCEPT ![bone] =
        InsertAt(cons[bone], insert_index,
                 [name |-> CopyTransformsName, type |-> type, target |-> target])]

\* Entity Resolver
find_org_bones(pose_bone) == pose_bone.name

----------------------------------------------------------------------------
(* State *)

Init ==
    /\ pc = "initialize"
    /\ params \in [make_control : BOOLEAN, make_widget : BOOLEAN,
                   make_deform : BOOLEAN, super_copy_widget_type : WidgetTypes]
    /\ self = [org_name |-> None, make_control |-> FALSE,
               make_widget |-> FALSE, make_deform |-> FALSE]
    /\ bones = [org |-> find_org_bones([name |-> OrgBone]), ctrl |-> None, deform |-> None]
    /\ exists = {OrgBone} \cup OtherBones
    /\ created = {}
    /\ \E p \in {None, "ORG-Parent"} :
          parent = [b \in AllBones |-> IF b = OrgBone THEN p ELSE None]
    /\ \E uc \in BOOLEAN :
          use_connect = [b \in AllBones |-> b = OrgBone /\ parent[OrgBone] # None /\ uc]
    /\ bbone = [b \in AllBones |-> FALSE]
    /\ props = [b \in AllBones |-> IF b = OrgBone THEN "XYZ" ELSE "QUATERNION"]
    /\ orig_stack \in Stacks
    /\ constraints = [b \in AllBones |-> IF b = OrgBone THEN orig_stack ELSE <<>>]
    /\ new_parent = None
    /\ widgets = <<>>
    /\ rigs = <<>> /\ arms = <<>> /\ log = <<>> /\ failure = <<>>

----------------------------------------------------------------------------
(* Bone store (BaseRig helpers), over the armature record *)

Arm == [exists |-> exists, created |-> created, parent |-> parent,
        use_connect |-> use_connect, bbone |-> bbone]

\* BaseRig.copy_bone: the name the new bone gets
copy_bone_name(new_name) == new_name

\* BaseRig.copy_bone: a duplicate of source named new_name; the parent and
\* its connection are copied only with parent=True, the bendy-bone settings
\* only with bbone=True
copy_bone(a, source, new_name, parent_flag, bbone_flag) ==
    LET n == copy_bone_name(new_name)
    IN  [a EXCEPT !.exists = @ \cup {n},
                  !.created = @ \cup {n},
                  !.parent[n] = IF parent_flag THEN a.parent[source] ELSE None,
                  !.use_connect[n] = parent_flag /\ a.use_connect[source],
                  !.bbone[n] = bbone_flag]

\* BaseRig.set_bone_parent
set_bone_parent(a, child, parent_name, connect) ==
    [a EXCEPT !.parent[child] = parent_name,
              !.use_connect[child] = connect]

\* the results relink_bone_parent may return for the org bone
RelinkResults == {None} \cup OtherBones

\* RelinkConstraintsMixin.relink_bone_parent: the resolved parent is applied
\* to the bone; an empty result leaves the bone a root
relink_bone_parent(a, bone, np) ==
    set_bone_parent(a, bone, np, FALSE)

\* BaseRig.copy_bone_properties
copy_bone_properties(p, src, dst) == [p EXCEPT ![dst] = p[src]]

\* utils.widgets.create_registered_widget
create_registered_widget(w, bone, widget_id) ==
    Append(w, [kind |-> "registered", bone |-> bone, type |-> widget_id])

\* utils.widgets_basic.create_bone_widget
create_bone_widget(w, bone) ==
    Append(w, [kind |-> "bone", bone |-> bone, type |-> "bone"])

----------------------------------------------------------------------------
(* Rig: the stages of super_copy.py *)

\* Rig.initialize, the fields it sets
initialize_fields ==
    [org_name |-> strip_org(bones.org),
     make_control |-> params.make_control,
     make_widget |-> params.make_widget,
     make_deform |-> params.make_deform]

initialize ==
    /\ pc = "initialize"
    /\ self' = initialize_fields
    /\ pc' = "generate_bones"
    /\ UNCHANGED <<params, bones, exists, created, parent, use_connect, bbone,
                   props, constraints, orig_stack, new_parent, widgets,
                   gvars>>

\* generate_bones with the deform copy placed under the make_control test
generate_bones_state_deform_under_control(st) ==
    IF self.make_control
    THEN LET a1 == copy_bone(st.arm, st.bones.org, self.org_name, TRUE, FALSE)
         IN  [arm |-> copy_bone(a1, st.bones.org,
                                make_deformer_name(self.org_name), FALSE, TRUE),
              bones |-> [st.bones EXCEPT
                            !.ctrl = copy_bone_name(self.org_name),
                            !.deform = copy_bone_name(make_deformer_name(self.org_name))]]
    ELSE st

\* Rig.generate_bones on the pair (armature, BoneSet)
generate_bones_state(st) ==
    LET st1 == IF self.make_control
               THEN [arm |-> copy_bone(st.arm, st.bones.org, self.org_name, TRUE, FALSE),
                     bones |-> [st.bones EXCEPT !.ctrl = copy_bone_name(self.org_name)]]
               ELSE st
        st2 == IF self.make_deform
               THEN [arm |-> copy_bone(st1.arm, st1.bones.org,
                                       make_deformer_name(self.org_name), FALSE, TRUE),
                     bones |-> [st1.bones EXCEPT
                                   !.deform = copy_bone_name(make_deformer_name(self.org_name))]]
               ELSE st1
    IN  st2

generate_bones ==
    /\ pc = "generate_bones"
    /\ LET st == generate_bones_state([arm |-> Arm, bones |-> bones])
       IN  /\ bones' = st.bones
           /\ exists' = st.arm.exists
           /\ created' = st.arm.created
           /\ parent' = st.arm.parent
           /\ use_connect' = st.arm.use_connect
           /\ bbone' = st.arm.bbone
    /\ pc' = "parent_bones"
    /\ UNCHANGED <<params, self, props, constraints, orig_stack, new_parent, widgets,
                   gvars>>

\* parent_bones with the deform bone parented to the relinked parent
parent_bones_arm_deform_follows_relink(a, np) ==
    LET a1 == relink_bone_parent(a, bones.org, np)
        a2 == IF self.make_deform /\ np # None
              THEN set_bone_parent(a1, bones.deform, np, FALSE)
              ELSE a1
    IN  IF self.make_control /\ np # None
        THEN set_bone_parent(a2, bones.ctrl, np, FALSE)
        ELSE a2

\* parent_bones without the parenting of the control bone
parent_bones_arm_ctrl_not_parented(a, np) ==
    LET a1 == IF self.make_deform
              THEN set_bone_parent(a, bones.deform, bones.org, FALSE)
              ELSE a
    IN  relink_bone_parent(a1, bones.org, np)

\* parent_bones with "if self.make_control:" (no test of new_parent)
parent_bones_arm_ctrl_parented_always(a, np) ==
    LET a1 == IF self.make_deform
              THEN set_bone_parent(a, bones.deform, bones.org, FALSE)
              ELSE a
        a2 == relink_bone_parent(a1, bones.org, np)
    IN  IF self.make_control
        THEN set_bone_parent(a2, bones.ctrl, np, FALSE)
        ELSE a2

\* parent_bones with the control bone parented to the org bone
parent_bones_arm_ctrl_under_org(a, np) ==
    LET a1 == IF self.make_deform
              THEN set_bone_parent(a, bones.deform, bones.org, FALSE)
              ELSE a
        a2 == relink_bone_parent(a1, bones.org, np)
    IN  IF self.make_control /\ np # None
        THEN set_bone_parent(a2, bones.ctrl, bones.org, FALSE)
        ELSE a2

\* Rig.parent_bones on the armature; np is what relink_bone_parent
\* returns for the org bone
parent_bones_arm(a, np) ==
    LET a1 == IF self.make_deform
              THEN set_bone_parent(a, bones.deform, bones.org, FALSE)
              ELSE a
        a2 == relink_bone_parent(a1, bones.org, np)
        a3 == IF self.make_control /\ np # None
              THEN set_bone_parent(a2, bones.ctrl, np, FALSE)
              ELSE a2
    IN  a3

parent_bones ==
    /\ pc = "parent_bones"
    /\ \E np \in RelinkResults :
          LET a == parent_bones_arm(Arm, np)
          IN  /\ new_parent' = np
              /\ parent' = a.parent
              /\ use_connect' = a.use_connect
    /\ pc' = "configure_bones"
    /\ UNCHANGED <<params, self, bones, exists, created, bbone, props,
                   constraints, orig_stack, widgets,
                   gvars>>

\* Rig.configure_bones on the bone properties
configure_bones_props(p) ==
    IF self.make_control THEN copy_bone_properties(p, bones.org, bones.ctrl) ELSE p

configure_bones ==
    /\ pc = "configure_bones"
    /\ props' = configure_bones_props(props)
    /\ pc' = "rig_bones"
    /\ UNCHANGED <<params, self, bones, exists, created, parent, use_connect,
                   bbone, constraints, orig_stack, new_parent, widgets,
                   gvars>>

\* rig_bones with insert_index=1 in the make_constraint call
rig_bones_constraints_insert_index_1(cons) ==
    LET c1 == relink_bone_constraints(cons, bones.org)
        c2 == IF self.make_control
              THEN make_constraint(
                       relink_move_constraints(c1, bones.org, bones.ctrl, PrefixCTRL),
                       bones.org, CopyTransformsType, bones.ctrl, 1)
              ELSE c1
    IN  IF self.make_deform
        THEN relink_move_constraints(c2, bones.org, bones.deform, PrefixDEF)
        ELSE c2

\* rig_bones with prefix='DEF:' in the move to the control bone
rig_bones_constraints_ctrl_move_def_prefix(cons) ==
    LET c1 == relink_bone_constraints(cons, bones.org)
        c2 == IF self.make_control
              THEN make_constraint(
                       relink_move_constraints(c1, bones.org, bones.ctrl, PrefixDEF),
                       bones.org, CopyTransformsType, bones.ctrl, 0)
              ELSE c1
    IN  IF self.make_deform
        THEN relink_move_constraints(c2, bones.org, bones.deform, PrefixDEF)
        ELSE c2

\* rig_bones with the DEF: move nested under the make_control test
rig_bones_constraints_def_move_under_control(cons) ==
    LET c1 == relink_bone_constraints(cons, bones.org)
    IN  IF self.make_control
        THEN LET c2 == make_constraint(
                           relink_move_constraints(c1, bones.org, bones.ctrl, PrefixCTRL),
                           bones.org, CopyTransformsType, bones.ctrl, 0)
             IN  IF self.make_deform
                 THEN relink_move_constraints(c2, bones.org, bones.deform, PrefixDEF)
                 ELSE c2
        ELSE c1

\* rig_bones with prefix='CTRL' (no colon) in the move to the control bone
rig_bones_constraints_ctrl_prefix_no_colon(cons) ==
    LET c1 == relink_bone_constraints(cons, bones.org)
        c2 == IF self.make_control
              THEN make_constraint(
                       relink_move_constraints(c1, bones.org, bones.ctrl,
                                               <<"C", "T", "R", "L">>),
                       bones.org, CopyTransformsType, bones.ctrl, 0)
              ELSE c1
    IN  IF self.make_deform
        THEN relink_move_constraints(c2, bones.org, bones.deform, PrefixDEF)
        ELSE c2

\* rig_bones with "elif self.make_deform" for the DEF: move
rig_bones_constraints_elif_deform(cons) ==
    LET c1 == relink_bone_constraints(cons, bones.org)
    IN  IF self.make_control
        THEN make_constraint(
                 relink_move_constraints(c1, bones.org, bones.ctrl, PrefixCTRL),
                 bones.org, CopyTransformsType, bones.ctrl, 0)
        ELSE IF self.make_deform
             THEN relink_move_constraints(c1, bones.org, bones.deform, PrefixDEF)
             ELSE c1

\* rig_bones with the make_constraint call outside the make_control test
rig_bones_constraints_copy_transforms_unconditional(cons) ==
    LET c1 == relink_bone_constraints(cons, bones.org)
        c2 == IF self.make_control
              THEN relink_move_constraints(c1, bones.org, bones.ctrl, PrefixCTRL)
              ELSE c1
        c3 == make_constraint(c2, bones.org, CopyTransformsType, bones.ctrl, 0)
    IN  IF self.make_deform
        THEN relink_move_constraints(c3, bones.org, bones.deform, PrefixDEF)
        ELSE c3

\* rig_bones with the prefix argument of the DEF: move left out (prefix='')
rig_bones_constraints_def_move_no_prefix(cons) ==
    LET c1 == relink_bone_constraints(cons, bones.org)
        c2 == IF self.make_control
              THEN make_constraint(
                       relink_move_constraints(c1, bones.org, bones.ctrl, PrefixCTRL),
                       bones.org, CopyTransformsType, bones.ctrl, 0)
              ELSE c1
    IN  IF self.make_deform
        THEN relink_move_constraints(c2, bones.org, bones.deform, <<>>)
        ELSE c2

\* Rig.rig_bones on the constraint stacks
rig_bones_constraints(cons) ==
    LET c1 == relink_bone_constraints(cons, bones.org)
        c2 == IF self.make_control
              THEN make_constraint(
                       relink_move_constraints(c1, bones.org, bones.ctrl, PrefixCTRL),
                       bones.org, CopyTransformsType, bones.ctrl, 0)
              ELSE c1
        c3 == IF self.make_deform
              THEN relink_move_constraints(c2, bones.org, bones.deform, PrefixDEF)
              ELSE c2
    IN  c3

rig_bones ==
    /\ pc = "rig_bones"
    /\ constraints' = rig_bones_constraints(constraints)
    /\ pc' = "generate_widgets"
    /\ UNCHANGED <<params, self, bones, exists, created, parent, use_connect,
                   bbone, props, orig_stack, new_parent, widgets,
                   gvars>>

\* generate_widgets without the make_control test
generate_widgets_calls_no_control_test(w) ==
    IF self.make_widget
    THEN create_registered_widget(w, bones.ctrl,
             IF params.super_copy_widget_type # ""
             THEN params.super_copy_widget_type ELSE "circle")
    ELSE create_bone_widget(w, bones.ctrl)

\* generate_widgets without the "or 'circle'" default
generate_widgets_calls_no_default(w) ==
    IF self.make_control
    THEN IF self.make_widget
         THEN create_registered_widget(w, bones.ctrl, params.super_copy_widget_type)
         ELSE create_bone_widget(w, bones.ctrl)
    ELSE w

\* Rig.generate_widgets on the list of widget attachments
generate_widgets_calls(w) ==
    IF self.make_control
    THEN IF self.make_widget
         THEN create_registered_widget(w, bones.ctrl,
                  IF params.super_copy_widget_type # ""
                  THEN params.super_copy_widget_type ELSE "circle")
         ELSE create_bone_widget(w, bones.ctrl)
    ELSE w

generate_widgets ==
    /\ pc = "generate_widgets"
    /\ widgets' = generate_widgets_calls(widgets)
    /\ pc' = "done"
    /\ UNCHANGED <<params, self, bones, exists, created, parent, use_connect,
                   bbone, props, constraints, orig_stack, new_parent,
                   gvars>>

Next ==
    \/ initialize
    \/ generate_bones
    \/ parent_bones
    \/ configure_bones
    \/ rig_bones
    \/ generate_widgets

Spec == Init /\ [][Next]_vars

----------------------------------------------------------------------------
(* Type correctness and stage vocabulary *)

Stages == {"initialize", "generate_bones", "parent_bones", "configure_bones",
           "rig_bones", "generate_widgets", "done"}

StageIndex(s) ==
    CASE s = "initialize" -> 0
      [] s = "generate_bones" -> 1
      [] s = "parent_bones" -> 2
      [] s = "configure_bones" -> 3
      [] s = "rig_bones" -> 4
      [] s = "generate_widgets" -> 5
      [] s = "done" -> 6

\* the named stage has been run
After(s) == StageIndex(pc) > StageIndex(s)

TypeOK ==
    /\ pc \in Stages
    /\ bones.org = OrgBone
    /\ exists \subseteq AllBones
    /\ created \subseteq exists

----------------------------------------------------------------------------
(* Statement-level model: the stages as sequences of guarded collaborator   *)
(* calls, run by the generator over one or more rig instances.  A rig      *)
(* instance is a record                                                    *)
(*   [params, self, bones, new_parent, relink, orig_stack, arm, stage, k]  *)
(* where relink is what relink_bone_parent will return for its org bone,   *)
(* arm names the armature it is generated in, and (stage, k) is the        *)
(* statement it executes next.  An armature is a record                    *)
(*   [exists, created, parent, use_connect, bbone, props, cons, widgets].  *)
(***************************************************************************)

\* number of statements of each stage method
StmtCount(stage) ==
    CASE stage = "initialize" -> 1
      [] stage = "generate_bones" -> 2
      [] stage = "parent_bones" -> 3
      [] stage = "configure_bones" -> 1
      [] stage = "rig_bones" -> 4
      [] stage = "generate_widgets" -> 2
      [] OTHER -> 0

\* the host's stage order
NextStage(stage) ==
    CASE stage = "initialize" -> "generate_bones"
      [] stage = "generate_bones" -> "parent_bones"
      [] stage = "parent_bones" -> "configure_bones"
      [] stage = "configure_bones" -> "rig_bones"
      [] stage = "rig_bones" -> "generate_widgets"
      [] OTHER -> "done"

\* Rig.initialize
initialize_stmt(k, rg) ==
    [guard |-> TRUE, fn |-> "strip_org", args |-> <<rg.bones.org>>, ret |-> "self"]

\* generate_bones with the deform copy made before the control copy
generate_bones_stmt_deform_first(k, rg) ==
    IF k = 2
    THEN [guard |-> rg.self.make_control, fn |-> "copy_bone",
          args |-> <<rg.bones.org, rg.self.org_name, TRUE, FALSE>>, ret |-> "ctrl"]
    ELSE [guard |-> rg.self.make_deform, fn |-> "copy_bone",
          args |-> <<rg.bones.org, make_deformer_name(rg.self.org_name), FALSE, TRUE>>,
          ret |-> "deform"]

\* Rig.generate_bones
generate_bones_stmt(k, rg) ==
    IF k = 1
    THEN [guard |-> rg.self.make_control, fn |-> "copy_bone",
          args |-> <<rg.bones.org, rg.self.org_name, TRUE, FALSE>>, ret |-> "ctrl"]
    ELSE [guard |-> rg.self.make_deform, fn |-> "copy_bone",
          args |-> <<rg.bones.org, make_deformer_name(rg.self.org_name), FALSE, TRUE>>,
          ret |-> "deform"]

\* parent_bones with "if new_parent:" (no test of make_control)
parent_bones_stmt_no_control_test(k, rg) ==
    CASE k = 1 -> [guard |-> rg.self.make_deform, fn |-> "set_bone_parent",
                   args |-> <<rg.bones.deform, rg.bones.org, FALSE>>, ret |-> ""]
      [] k = 2 -> [guard |-> TRUE, fn |-> "relink_bone_parent",
                   args |-> <<rg.bones.org>>, ret |-> "new_parent"]
      [] OTHER -> [guard |-> rg.new_parent # None, fn |-> "set_bone_parent",
                   args |-> <<rg.bones.ctrl, rg.new_parent, FALSE>>, ret |-> ""]

\* Rig.parent_bones
parent_bones_stmt(k, rg) ==
    CASE k = 1 -> [guard |-> rg.self.make_deform, fn |-> "set_bone_parent",
                   args |-> <<rg.bones.deform, rg.bones.org, FALSE>>, ret |-> ""]
      [] k = 2 -> [guard |-> TRUE, fn |-> "relink_bone_parent",
                   args |-> <<rg.bones.org>>, ret |-> "new_parent"]
      [] OTHER -> [guard |-> rg.self.make_control /\ rg.new_parent # None,
                   fn |-> "set_bone_parent",
                   args |-> <<rg.bones.ctrl, rg.new_parent, FALSE>>, ret |-> ""]

\* Rig.configure_bones
configure_bones_stmt(k, rg) ==
    [guard |-> rg.self.make_control, fn |-> "copy_bone_properties",
     args |-> <<rg.bones.org, rg.bones.ctrl>>, ret |-> ""]

\* Rig.rig_bones
rig_bones_stmt(k, rg) ==
    CASE k = 1 -> [guard |-> TRUE, fn |-> "relink_bone_constraints",
                   args |-> <<rg.bones.org>>, ret |-> ""]
      [] k = 2 -> [guard |-> rg.self.make_control, fn |-> "relink_move_constraints",
                   args |-> <<rg.bones.org, rg.bones.ctrl, PrefixCTRL>>, ret |-> ""]
      [] k = 3 -> [guard |-> rg.self.make_control, fn |-> "make_constraint",
                   args |-> <<rg.bones.org, CopyTransformsType, rg.bones.ctrl, 0>>,
                   ret |-> ""]
      [] OTHER -> [guard |-> rg.self.make_deform, fn |-> "relink_move_constraints",
                   args |-> <<rg.bones.org, rg.bones.deform, PrefixDEF>>, ret |-> ""]

\* generate_widgets without the make_control test
generate_widgets_stmt_no_control_test(k, rg) ==
    IF k = 1
    THEN [guard |-> rg.self.make_widget,
          fn |-> "create_registered_widget",
          args |-> <<rg.bones.ctrl,
                     IF rg.params.super_copy_widget_type # ""
                     THEN rg.params.super_copy_widget_type ELSE "circle">>,
          ret |-> ""]
    ELSE [guard |-> ~rg.self.make_widget,
          fn |-> "create_bone_widget", args |-> <<rg.bones.ctrl>>, ret |-> ""]

\* Rig.generate_widgets
generate_widgets_stmt(k, rg) ==
    IF k = 1
    THEN [guard |-> rg.self.make_control /\ rg.self.make_widget,
          fn |-> "create_registered_widget",
          args |-> <<rg.bones.ctrl,
                     IF rg.params.super_copy_widget_type # ""
                     THEN rg.params.super_copy_widget_type ELSE "circle">>,
          ret |-> ""]
    ELSE [guard |-> rg.self.make_control /\ ~rg.self.make_widget,
          fn |-> "create_bone_widget", args |-> <<rg.bones.ctrl>>, ret |-> ""]

\* statement k of the stage method
Stmt(stage, k, rg) ==
    CASE stage = "initialize" -> initialize_stmt(k, rg)
      [] stage = "generate_bones" -> generate_bones_stmt(k, rg)
      [] stage = "parent_bones" -> parent_bones_stmt(k, rg)
      [] stage = "configure_bones" -> configure_bones_stmt(k, rg)
      [] stage = "rig_bones" -> rig_bones_stmt(k, rg)
      [] stage = "generate_widgets" -> generate_widgets_stmt(k, rg)

\* the bones a call names
BoneRefs(st) ==
    CASE st.fn \in {"set_bone_parent", "copy_bone_properties", "relink_move_constraints"}
            -> {st.args[1], st.args[2]}
      [] st.fn = "make_constraint" -> {st.args[1], st.args[3]}
      [] OTHER -> {st.args[1]}

\* what kind of operation a call is
CallKind(fn) ==
    CASE fn = "copy_bone" -> "create"
      [] fn \in {"set_bone_parent", "relink_bone_parent"} -> "parent"
      [] fn = "copy_bone_properties" -> "properties"
      [] fn \in {"relink_bone_constraints", "relink_move_constraints", "make_constraint"}
            -> "constraint"
      [] fn \in {"create_registered_widget", "create_bone_widget"} -> "widget"
      [] OTHER -> "none"

\* the effect of a call on the rig instance and its armature
Exec(rg, am, st) ==
    CASE st.fn = "strip_org" ->
            [rig |-> [rg EXCEPT !.self = [org_name |-> strip_org(st.args[1]),
                                          make_control |-> rg.params.make_control,
                                          make_widget |-> rg.params.make_widget,
                                          make_deform |-> rg.params.make_deform]],
             arm |-> am]
      [] st.fn = "copy_bone" ->
            [rig |-> [rg EXCEPT !.bones[st.ret] = copy_bone_name(st.args[2])],
             arm |-> copy_bone(am, st.args[1], st.args[2], st.args[3], st.args[4])]
      [] st.fn = "set_bone_parent" ->
            [rig |-> rg,
             arm |-> set_bone_parent(am, st.args[1], st.args[2], st.args[3])]
      [] st.fn = "relink_bone_parent" ->
            [rig |-> [rg EXCEPT !.new_parent = rg.relink],
             arm |-> relink_bone_parent(am, st.args[1], rg.relink)]
      [] st.fn = "copy_bone_properties" ->
            [rig |-> rg,
             arm |-> [am EXCEPT !.props = copy_bone_properties(@, st.args[1], st.args[2])]]
      [] st.fn = "relink_bone_constraints" ->
            [rig |-> rg,
             arm |-> [am EXCEPT !.cons = relink_bone_constraints(@, st.args[1])]]
      [] st.fn = "relink_move_constraints" ->
            [rig |-> rg,
             arm |-> [am EXCEPT !.cons = relink_move_constraints(@, st.args[1],
                                                                 st.args[2], st.args[3])]]
      [] st.fn = "make_constraint" ->
            [rig |-> rg,
             arm |-> [am EXCEPT !.cons = make_constraint(@, st.args[1], st.args[2],
                                                         st.args[3], st.args[4])]]
      [] st.fn = "create_registered_widget" ->
            [rig |-> rg,
             arm |-> [am EXCEPT !.widgets = create_registered_widget(@, st.args[1],
                                                                     st.args[2])]]
      [] st.fn = "create_bone_widget" ->
            [rig |-> rg,
             arm |-> [am EXCEPT !.widgets = create_bone_widget(@, st.args[1])]]

\* the position after statement k of the stage
Advance(rg) ==
    IF rg.k >= StmtCount(rg.stage)
    THEN [rg EXCEPT !.stage = NextStage(rg.stage), !.k = 1]
    ELSE [rg EXCEPT !.k = rg.k + 1]

RECURSIVE RunStage(_, _, _)
\* a whole stage method run on (rig, armature), from statement rg.k
RunStage(rg, am, stage) ==
    IF rg.stage # stage THEN [rig |-> rg, arm |-> am]
    ELSE LET st == Stmt(stage, rg.k, rg)
             r == IF st.guard THEN Exec(rg, am, st) ELSE [rig |-> rg, arm |-> am]
         IN  RunStage(Advance(r.rig), r.arm, stage)

----------------------------------------------------------------------------
(* The generator: it invokes each stage on every rig instance before it     *)
(* starts the next stage, one stage method at a time; a call that raises   *)
(* ends the run.                                                           *)

\* the stage-level variables, at rest while the generator model runs
StagesIdle ==
    /\ pc = "done"
    /\ params = [make_control |-> FALSE, make_widget |-> FALSE,
                 make_deform |-> FALSE, super_copy_widget_type |-> ""]
    /\ self = [org_name |-> None, make_control |-> FALSE,
               make_widget |-> FALSE, make_deform |-> FALSE]
    /\ bones = [org |-> OrgBone, ctrl |-> None, deform |-> None]
    /\ exists = {OrgBone} \cup OtherBones
    /\ created = {}
    /\ parent = [b \in AllBones |-> None]
    /\ use_connect = [b \in AllBones |-> FALSE]
    /\ bbone = [b \in AllBones |-> FALSE]
    /\ props = [b \in AllBones |-> "QUATERNION"]
    /\ orig_stack = <<>>
    /\ constraints = [b \in AllBones |-> <<>>]
    /\ new_parent = None
    /\ widgets = <<>>

\* a rig instance after construction
RigInit(prm, org, stack, relink, arm_id) ==
    [params |-> prm,
     self |-> [org_name |-> None, make_control |-> FALSE,
               make_widget |-> FALSE, make_deform |-> FALSE],
     bones |-> [org |-> find_org_bones([name |-> org]), ctrl |-> None, deform |-> None],
     new_parent |-> None,
     relink |-> relink,
     orig_stack |-> stack,
     arm |-> arm_id,
     stage |-> "initialize",
     k |-> 1]

\* an armature before generation: par and cons give the parents and the
\* constraint stacks of its bones
ArmInit(par, cons) ==
    [exists |-> {OrgBone} \cup OtherBones,
     created |-> {},
     parent |-> par,
     use_connect |-> [b \in AllBones |-> par[b] # None],
     bbone |-> [b \in AllBones |-> FALSE],
     props |-> [b \in AllBones |-> IF b \in {OrgBone, "ORG-Parent"} THEN "XYZ"
                                   ELSE "QUATERNION"],
     cons |-> cons,
     widgets |-> <<>>]

ParamSets == [make_control : BOOLEAN, make_widget : BOOLEAN,
              make_deform : BOOLEAN, super_copy_widget_type : WidgetTypes]

\* the bones an instance with parameters prm on org bone org will create
PlannedBones(prm, org) ==
    (IF prm.make_control THEN {strip_org(org)} ELSE {})
    \cup (IF prm.make_deform THEN {make_deformer_name(strip_org(org))} ELSE {})

\* a host without the barrier: one stage method at a time, but an instance
\* may run ahead of the others
HostAllows_no_barrier(i) ==
    \A j \in DOMAIN rigs \ {i} : rigs[j].k = 1

\* the host's barrier: instance i may run a statement of its stage only
\* when no instance is behind it and no other instance is inside a stage
\* method
HostAllows(i) ==
    \A j \in DOMAIN rigs \ {i} :
        /\ StageIndex(rigs[j].stage) >= StageIndex(rigs[i].stage)
        /\ rigs[j].k = 1

\* instance i executes its next statement
Step(i) ==
    /\ failure = <<>>
    /\ rigs[i].stage # "done"
    /\ HostAllows(i)
    /\ LET rg == rigs[i]
           am == arms[rg.arm]
           st == Stmt(rg.stage, rg.k, rg)
           r == IF st.guard THEN Exec(rg, am, st) ELSE [rig |-> rg, arm |-> am]
       IN  /\ rigs' = [rigs EXCEPT ![i] = Advance(r.rig)]
           /\ arms' = [arms EXCEPT ![rg.arm] = r.arm]
           /\ log' = IF st.guard
                     THEN [log EXCEPT ![i] =
                              Append(@, [stage |-> rg.stage, fn |-> st.fn,
                                         refs |-> BoneRefs(st),
                                         boneset |-> {rg.bones.org, rg.bones.ctrl,
                                                      rg.bones.deform},
                                         refs_exist |-> BoneRefs(st) \subseteq am.exists])]
                     ELSE log
    /\ UNCHANGED failure
    /\ UNCHANGED svars

gen_initialize(i) == rigs[i].stage = "initialize" /\ Step(i)

gen_generate_bones(i) == rigs[i].stage = "generate_bones" /\ Step(i)

gen_parent_bones(i) == rigs[i].stage = "parent_bones" /\ Step(i)

gen_configure_bones(i) == rigs[i].stage = "configure_bones" /\ Step(i)

gen_rig_bones(i) == rigs[i].stage = "rig_bones" /\ Step(i)

gen_generate_widgets(i) == rigs[i].stage = "generate_widgets" /\ Step(i)

\* the call instance i is about to make raises: the exception leaves the
\* stage method and the generator ends the run
gen_raise(i) ==
    /\ failure = <<>>
    /\ rigs[i].stage # "done"
    /\ HostAllows(i)
    /\ LET rg == rigs[i]
           st == Stmt(rg.stage, rg.k, rg)
       IN  /\ st.guard
           /\ failure' = <<[inst |-> i, stage |-> rg.stage, k |-> rg.k, fn |-> st.fn,
                            ret |-> st.ret]>>
    /\ UNCHANGED <<rigs, arms, log>>
    /\ UNCHANGED svars

GenStep ==
    \E i \in DOMAIN rigs :
        \/ gen_initialize(i)
        \/ gen_generate_bones(i)
        \/ gen_parent_bones(i)
        \/ gen_configure_bones(i)
        \/ gen_rig_bones(i)
        \/ gen_generate_widgets(i)

GenRaise == \E i \in DOMAIN rigs : gen_raise(i)

\* one instance on ORG-Bone, any call may raise
CallsInit ==
    /\ StagesIdle
    /\ \E prm \in ParamSets, stack \in StacksUpTo(GenMaxCons),
          p \in {None, "ORG-Parent"}, relink \in RelinkResults :
          /\ rigs = <<RigInit(prm, OrgBone, stack, relink, 1)>>
          /\ arms = <<ArmInit([b \in AllBones |-> IF b = OrgBone THEN p ELSE None],
                              [b \in AllBones |-> IF b = OrgBone THEN stack ELSE <<>>])>>
    /\ log = <<<<>>>>
    /\ failure = <<>>

CallsNext == GenStep \/ GenRaise

SpecCalls == CallsInit /\ [][CallsNext]_vars

\* two instances in one armature: instance 1 on ORG-Parent, instance 2 on
\* its child ORG-Bone, whose relinked parent may be a bone instance 1 creates
MultiInit ==
    /\ StagesIdle
    /\ \E prm1 \in { q \in ParamSets : q.make_widget /\ q.super_copy_widget_type = "circle" },
          prm2 \in { q \in ParamSets : q.super_copy_widget_type = "" },
          stack \in StacksUpTo(PairMaxCons),
          relink1 \in {None, "root"} :
          \E relink2 \in RelinkResults \cup PlannedBones(prm1, "ORG-Parent") :
             /\ rigs = <<RigInit(prm1, "ORG-Parent", <<>>, relink1, 1),
                         RigInit(prm2, OrgBone, stack, relink2, 1)>>
             /\ arms = <<ArmInit([b \in AllBones |->
                                     CASE b = OrgBone -> "ORG-Parent"
                                       [] b = "ORG-Parent" -> "root"
                                       [] OTHER -> None],
                                 [b \in AllBones |-> IF b = OrgBone THEN stack ELSE <<>>])>>
    /\ log = <<<<>>, <<>>>>
    /\ failure = <<>>

MultiNext == GenStep

SpecMulti == MultiInit /\ [][MultiNext]_vars

\* two runs from the same initial armature whose parameters differ at most
\* in make_widget and super_copy_widget_type
PairInit ==
    /\ StagesIdle
    /\ \E prm1 \in ParamSets, prm2 \in ParamSets,
          stack \in StacksUpTo(PairMaxCons),
          p \in {None, "ORG-Parent"}, relink \in {None, "root"} :
          /\ prm1.make_control = prm2.make_control
          /\ prm1.make_deform = prm2.make_deform
          /\ LET am == ArmInit([b \in AllBones |-> IF b = OrgBone THEN p ELSE None],
                               [b \in AllBones |-> IF b = OrgBone THEN stack ELSE <<>>])
             IN  /\ rigs = <<RigInit(prm1, OrgBone, stack, relink, 1),
                             RigInit(prm2, OrgBone, stack, relink, 2)>>
                 /\ arms = <<am, am>>
    /\ log = <<<<>>, <<>>>>
    /\ failure = <<>>

PairNext == GenStep

SpecPair == PairInit /\ [][PairNext]_vars

\* the stage-level actions and the statement-level stage methods agree
StageRig ==
    [params |-> params, self |-> self, bones |-> bones, new_parent |-> new_parent,
     relink |-> new_parent, orig_stack |-> orig_stack, arm |-> 1,
     stage |-> pc, k |-> 1]

StageArm ==
    [exists |-> exists, created |-> created, parent |-> parent,
     use_connect |-> use_connect, bbone |-> bbone, props |-> props,
     cons |-> constraints, widgets |-> widgets]

StagesAgreeWithStatements ==
    [][LET r == RunStage([StageRig EXCEPT !.relink = new_parent'], StageArm, pc)
       IN  /\ r.arm = StageArm'
           /\ r.rig.stage = pc'
           /\ r.rig.self = self'
           /\ r.rig.bones = bones'
           /\ r.rig.new_parent = new_parent']_vars

----------------------------------------------------------------------------
(* Vocabulary of the properties *)

Names(s) == [i \in 1..Len(s) |-> s[i].name]

\* the names in stack s that start with prefix, in stack order
PrefixedNames(s, prefix) ==
    SelectSeq2(Names(s), { n \in Range(Names(s)) : StartsWith(n, prefix) })

\* the names in stack s that carry neither prefix, in stack order
UnprefixedNames(s) ==
    SelectSeq2(Names(s), { n \in Range(Names(s)) :
                              ~StartsWith(n, PrefixCTRL) /\ ~StartsWith(n, PrefixDEF) })

\* positions of org's stack holding a constraint that was not there originally
AddedToOrg ==
    { i \in 1..Len(constraints[OrgBone]) :
         constraints[OrgBone][i].name \notin Range(Names(orig_stack)) }

IsCopyTransformsTo(c, target) ==
    c.type = CopyTransformsType /\ c.target = target

\* the stack of a role's bone; empty when the role has no bone
StackOf(role_bone) == IF role_bone = None THEN <<>> ELSE constraints[role_bone]

----------------------------------------------------------------------------
(* Properties *)

\* C1: after Generate Bones the bones created by the component are exactly
\* {ctrl if make_control} union {deform if make_deform}; the BoneSet has
\* role ctrl iff make_control, role deform iff make_deform, and always org.
C1_CreatedBones ==
    After("generate_bones") =>
        /\ created = { b \in {bones.ctrl, bones.deform} : b # None }
        /\ Cardinality(created) =
              (IF params.make_control THEN 1 ELSE 0) + (IF params.make_deform THEN 1 ELSE 0)
        /\ (bones.ctrl # None) <=> params.make_control
        /\ (bones.deform # None) <=> params.make_deform
        /\ bones.org # None /\ bones.org \in exists /\ bones.org \notin created
        /\ exists = {OrgBone} \cup OtherBones \cup created

C1_Witness ==
    /\ After("generate_bones")
    /\ params.make_control /\ ~params.make_deform
    /\ created = {bones.ctrl} /\ bones.deform = None

\* C2: after the Rig stage exactly one synthetic copy-transforms constraint
\* has been added to org iff make_control; it is at index 0 of org's stack
\* and targets the control bone, also after the DEF: move.
C2_CopyTransformsAtFront ==
    After("rig_bones") =>
        /\ Cardinality(AddedToOrg) = (IF params.make_control THEN 1 ELSE 0)
        /\ params.make_control =>
              /\ AddedToOrg = {1}
              /\ bones.ctrl \in exists
              /\ IsCopyTransformsTo(constraints[OrgBone][1], bones.ctrl)

C2_Witness ==
    /\ After("rig_bones")
    /\ params.make_control /\ params.make_deform
    /\ Len(orig_stack) >= 2
    /\ StartsWith(orig_stack[1].name, PrefixDEF)
    /\ Len(constraints[OrgBone]) >= 2
    /\ IsCopyTransformsTo(constraints[OrgBone][1], bones.ctrl)

C5_UnprefixedStay ==
    LET unprefixed == Range(UnprefixedNames(orig_stack))
    IN  /\ SelectSeq2(Names(constraints[OrgBone]), unprefixed) = UnprefixedNames(orig_stack)
        /\ Range(Names(StackOf(bones.ctrl))) \cap unprefixed = {}
        /\ Range(Names(StackOf(bones.deform))) \cap unprefixed = {}

C5_Witness ==
    /\ After("rig_bones") /\ params.make_control /\ params.make_deform
    /\ Len(UnprefixedNames(orig_stack)) = 2
    /\ Len(constraints[bones.ctrl]) = 1

\* C6: with make_deform, at the end of Parent Bones and in every later
\* state the deform bone's parent is org with connected-parenting disabled,
\* for either value of make_control and every relink result.
C6_DeformUnderOrg ==
    (After("parent_bones") /\ params.make_deform) =>
        /\ bones.deform \in exists
        /\ parent[bones.deform] = bones.org
        /\ ~use_connect[bones.deform]

C6_Witness ==
    /\ pc = "done" /\ params.make_deform /\ params.make_control
    /\ new_parent = "root"
    /\ parent[bones.org] = "root"
    /\ parent[bones.deform] = bones.org

\* C7: with make_control and a non-empty relink result P, after Parent
\* Bones and until the end of the run both org and the control bone have
\* parent P; control is neither org's parent nor its child.
C7_ControlSiblingOfOrg ==
    (After("parent_bones") /\ params.make_control /\ new_parent # None) =>
        /\ parent[bones.org] = new_parent
        /\ parent[bones.ctrl] = new_parent
        /\ parent[bones.ctrl] # bones.org
        /\ parent[bones.org] # bones.ctrl

C7_Witness ==
    /\ pc = "done" /\ params.make_control
    /\ new_parent = "MCH-Target"
    /\ parent[bones.ctrl] = "MCH-Target"
    /\ parent[bones.org] = "MCH-Target"

\* the original constraints that rig_bones leaves on org: the unprefixed
\* ones, the CTRL: ones when there is no control bone, the DEF: ones when
\* there is no deform bone
StayingNames ==
    { n \in Range(Names(orig_stack)) :
         /\ StartsWith(n, PrefixCTRL) => ~params.make_control
         /\ StartsWith(n, PrefixDEF) => ~params.make_deform }

SyntheticFront == IF params.make_control THEN <<CopyTransformsName>> ELSE <<>>

C10_WidgetAttachment ==
    /\ \A i \in 1..Len(widgets) :
          widgets[i].bone \notin {bones.org, bones.deform}
    /\ ~After("generate_widgets") => widgets = <<>>
    /\ After("generate_widgets") =>
          /\ Len(widgets) = (IF params.make_control THEN 1 ELSE 0)
          /\ params.make_control =>
                /\ widgets[1].bone = bones.ctrl /\ bones.ctrl \in created
                /\ params.make_widget =>
                      /\ widgets[1].kind = "registered"
                      /\ params.super_copy_widget_type # "" =>
                            widgets[1].type = params.super_copy_widget_type
                      /\ params.super_copy_widget_type = "" =>
                            widgets[1].type = "circle"
                /\ ~params.make_widget => widgets[1].kind = "bone"

C10_Witness ==
    /\ pc = "done" /\ params.make_control /\ params.make_widget
    /\ params.super_copy_widget_type = ""
    /\ widgets = <<[kind |-> "registered", bone |-> CtrlName, type |-> "circle"]>>

C12_NoFlagsNoEffect ==
    (~params.make_control /\ ~params.make_deform) =>
        /\ created = {} /\ exists = {OrgBone} \cup OtherBones
        /\ bones = [org |-> OrgBone, ctrl |-> None, deform |-> None]
        /\ widgets = <<>>
        /\ \A b \in AllBones \ {OrgBone} : parent[b] = None /\ constraints[b] = <<>>
        /\ Len(constraints[OrgBone]) = Len(orig_stack)
        /\ \A i \in 1..Len(orig_stack) :
              [constraints[OrgBone][i] EXCEPT !.target = orig_stack[i].target] = orig_stack[i]

C12_Witness ==
    /\ pc = "done" /\ ~params.make_control /\ ~params.make_deform
    /\ Len(orig_stack) >= 2
    /\ constraints[OrgBone] # orig_stack
    /\ PrefixedNames(constraints[OrgBone], PrefixCTRL) # <<>>

\* where the constraint named n sits: pairs <<bone, position>>
PlacesOf(n) ==
    { bi \in AllBones \X (1..(Len(orig_stack) + 1)) :
         /\ bi[2] <= Len(constraints[bi[1]])
         /\ constraints[bi[1]][bi[2]].name = n }

\* C16: the Rig stage neither loses nor duplicates a constraint: every
\* original constraint is on exactly one of org, ctrl, deform, never on a
\* bone that does not exist; the only constraint that was not in the
\* original stack is the synthetic copy-transforms one, present iff
\* make_control, on org and never on deform.
C16_Conservation ==
    After("rig_bones") =>
        /\ \A n \in Range(Names(orig_stack)) :
              /\ Cardinality(PlacesOf(n)) = 1
              /\ \A bi \in PlacesOf(n) :
                    bi[1] \in {bones.org, bones.ctrl, bones.deform} /\ bi[1] \in exists
        /\ \A b \in AllBones :
              /\ Len(constraints[b]) <= Len(orig_stack) + 1
              /\ b \notin exists => constraints[b] = <<>>
              /\ \A i \in 1..Len(constraints[b]) :
                    constraints[b][i].name \notin Range(Names(orig_stack)) =>
                        /\ params.make_control
                        /\ b = bones.org /\ i = 1
                        /\ constraints[b][i].name = CopyTransformsName
        /\ params.make_control => PlacesOf(CopyTransformsName) = {<<bones.org, 1>>}

C16_Witness ==
    /\ After("rig_bones") /\ params.make_control /\ params.make_deform
    /\ Len(constraints[bones.org]) = 2
    /\ Len(constraints[bones.ctrl]) = 1
    /\ Len(constraints[bones.deform]) = 1

KindRank(kind) ==
    CASE kind = "create" -> 1
      [] kind = "parent" -> 2
      [] kind = "properties" -> 3
      [] kind = "constraint" -> 4
      [] kind = "widget" -> 5
      [] OTHER -> 0

\* C13: in a run in the fixed stage order no operation refers to a derived
\* bone that does not exist yet: every call names only bones that exist,
\* a call naming ctrl or deform is made with that bone registered in the
\* BoneSet, and creation precedes parenting, which precedes constraint
\* operations, which precede widget attachment.
C13_BonesExistBeforeUse ==
    \A i \in DOMAIN log :
        /\ \A n \in 1..Len(log[i]) :
              /\ log[i][n].refs_exist
              /\ None \notin log[i][n].refs
              /\ log[i][n].refs \cap {CtrlName, DeformName} \subseteq log[i][n].boneset
        /\ \A m, n \in 1..Len(log[i]) :
              m < n => KindRank(CallKind(log[i][m].fn)) <= KindRank(CallKind(log[i][n].fn))

C13_Witness ==
    /\ rigs[1].stage = "done"
    /\ rigs[1].params.make_control /\ rigs[1].params.make_deform
    /\ Len(log[1]) = 12
    /\ log[1][12].fn = "create_registered_widget"
    /\ log[1][6].refs = {CtrlName, "root"}

\* the state predicate of C15, for a run whose call f raised
RaisedLeavesStage(f) ==
    LET rg == rigs[f.inst]
        am == arms[rg.arm]
    IN  /\ rg.stage = f.stage /\ rg.k = f.k
        /\ \A n \in 1..Len(log[f.inst]) :
              StageIndex(log[f.inst][n].stage) <= StageIndex(f.stage)
        /\ am.widgets = <<>>
        \* a failed control-bone copy: no deform bone
        /\ (f.fn = "copy_bone" /\ f.ret = "ctrl") =>
              am.created = {} /\ rg.bones.ctrl = None /\ rg.bones.deform = None
        \* a failed deform-bone copy: the control bone stays
        /\ (f.fn = "copy_bone" /\ f.ret = "deform" /\ rg.params.make_control) =>
              am.created = {CtrlName} /\ rg.bones.ctrl = CtrlName
        \* a failed relink: the deform parenting stays, control not re-parented
        /\ f.fn = "relink_bone_parent" =>
              /\ rg.params.make_deform => am.parent[DeformName] = OrgBone
              /\ rg.new_parent = None
              /\ rg.params.make_control => am.parent[CtrlName] = am.parent[OrgBone]
        \* a failed CTRL: move: no copy-transforms, no DEF: move
        /\ (f.stage = "rig_bones" /\ f.k = 2) =>
              /\ Names(am.cons[OrgBone]) = Names(rg.orig_stack)
              /\ am.cons[CtrlName] = <<>> /\ am.cons[DeformName] = <<>>
        \* a failed DEF: move: the CTRL: move and the insertion stay
        /\ (f.stage = "rig_bones" /\ f.k = 4 /\ rg.params.make_control) =>
              /\ Names(am.cons[CtrlName]) = PrefixedNames(rg.orig_stack, PrefixCTRL)
              /\ am.cons[OrgBone][1].name = CopyTransformsName
              /\ am.cons[DeformName] = <<>>

\* C15: a collaborator call that raises is not recovered or retried: the
\* stage is left at that call, none of its remaining operations and none of
\* the later stages' operations is performed, and what was done before the
\* failure is not rolled back.
C15_FailurePropagates ==
    /\ [](failure # <<>> => RaisedLeavesStage(failure[1]))
    /\ [][failure # <<>> => UNCHANGED <<rigs, arms, log, failure>>]_vars

C15_Witness ==
    /\ failure # <<>>
    /\ failure[1].stage = "rig_bones" /\ failure[1].k = 2
    /\ rigs[1].params.make_deform
    /\ PrefixedNames(rigs[1].orig_stack, PrefixDEF) # <<>>
    /\ PrefixedNames(rigs[1].orig_stack, PrefixCTRL) # <<>>
    /\ Len(arms[1].cons[OrgBone]) = 2
    /\ DeformName \in arms[1].created

\* instance i has started, resp. finished, the stage of index n
Started(i, n) ==
    \/ StageIndex(rigs[i].stage) > n
    \/ StageIndex(rigs[i].stage) = n /\ rigs[i].k > 1

Finished(i, n) == StageIndex(rigs[i].stage) > n

\* every instance has finished a stage before any instance starts the next
Barrier ==
    \A i, j \in DOMAIN rigs : \A n \in 0..4 :
        Started(i, n + 1) => Finished(j, n)

\* whenever a bone is given a new parent, that parent exists at that moment
ParentTargetsExist ==
    \A a \in DOMAIN arms : \A b \in AllBones :
        arms'[a].parent[b] # arms[a].parent[b] =>
            arms'[a].parent[b] \in arms[a].exists \cup {None}

\* C14: with two instances generated in one run, in every interleaving the
\* host allows every instance has finished stage k before any instance
\* starts stage k+1, so a relink target that another instance creates
\* exists when Parent Bones parents org or ctrl to it.
C14_StageBarrier ==
    /\ []Barrier
    /\ [][ParentTargetsExist]_vars

C14_Witness ==
    /\ rigs[1].stage = "configure_bones" /\ rigs[2].stage = "configure_bones"
    /\ rigs[2].params.make_control
    /\ ParentCtrlName \in arms[1].created
    /\ log[2][Len(log[2])].fn = "set_bone_parent"
    /\ arms[1].parent[OrgBone] = ParentCtrlName
    /\ arms[1].parent[CtrlName] = ParentCtrlName

\* what a run leaves behind: its armature (bones, parents, constraint
\* stacks, widget attachments) and its BoneSet
Outcome(i) == [arm |-> arms[rigs[i].arm], bones |-> rigs[i].bones]

\* C18: two full runs from the same initial armature that differ only in
\* make_widget and/or widget_type end in identical states when make_control
\* is false, and also when make_control is true and make_widget is false in
\* both (they then differ only in widget_type).
C18_WidgetOptionsNoninterference ==
    (rigs[1].stage = "done" /\ rigs[2].stage = "done") =>
        /\ ~rigs[1].params.make_control =>
              Outcome(1) = Outcome(2) /\ arms[1].widgets = <<>>
        /\ (rigs[1].params.make_control /\ ~rigs[1].params.make_widget
                /\ ~rigs[2].params.make_widget) =>
              Outcome(1) = Outcome(2)

C18_Witness ==
    /\ rigs[1].stage = "done" /\ rigs[2].stage = "done"
    /\ ~rigs[1].params.make_control /\ rigs[1].params.make_deform
    /\ rigs[1].params.make_widget /\ ~rigs[2].params.make_widget
    /\ rigs[1].params.super_copy_widget_type = "sphere"
    /\ rigs[2].params.super_copy_widget_type = ""
    /\ Len(arms[1].cons[DeformName]) = 1
    /\ Outcome(1) = Outcome(2)

====
